---------------------------- MODULE Spec2Model ----------------------------
(***************************************************************************)
(* JobFit-AI: the scoring and extraction pipeline (nlp/parse.py,           *)
(* nlp/score.py, nlp/rewrite.py) and the analysis handler of app.py.       *)
(*                                                                         *)
(* A text is a sequence of one-character strings.  Indices and slices keep *)
(* Python's conventions: Find returns a 0-based index or -1, Slice(t,a,b)  *)
(* is t[a:b].  Floats are exact rationals: weights and level scores are    *)
(* counted in tenths, score inputs in units of 1/Den.                      *)
(***************************************************************************)
EXTENDS Integers, Sequences, FiniteSets, TLC

VARIABLES
    pc,      \* position of the call / handler being modelled
    args,    \* the arguments of the call (a record)
    ret,     \* the value returned (or the handler's locals)
    cache,   \* lru_cache of embedder(): 0 = empty, n > 0 = instance n is cached
    built,   \* number of SentenceTransformer instances constructed so far
    thr      \* per thread: position inside embedder()/cosine_embed_sim

vars == <<pc, args, ret, cache, built, thr>>

None == "None"

-----------------------------------------------------------------------------
(* Python str / re primitives                                               *)

\* the characters str.isspace() holds for, among those the texts below are
\* made of; re's \s and str.strip() use the same class
WhiteSpace == {" ", "\t", "\n", "\r", "\f"}

IsSpace(c) == c \in WhiteSpace

Digits == {"0", "1", "2", "3", "4", "5", "6", "7", "8", "9"}

IsDigit(c) == c \in Digits

UpperAlpha == <<"A","B","C","D","E","F","G","H","I","J","K","L","M","N","O","P","Q","R","S","T","U","V","W","X","Y","Z">>

LowerAlpha == <<"a","b","c","d","e","f","g","h","i","j","k","l","m","n","o","p","q","r","s","t","u","v","w","x","y","z">>

\* str.lower() of one character: a text, since U+0130 lowers to two characters
LowerChar(c) ==
    IF \E i \in 1..Len(UpperAlpha) : UpperAlpha[i] = c
    THEN <<LowerAlpha[CHOOSE i \in 1..Len(UpperAlpha) : UpperAlpha[i] = c]>>
    ELSE IF c = "<I-dot>" THEN <<"i", "<dot-above>">>
    ELSE <<c>>

RECURSIVE Lower(_)
Lower(t) == IF t = <<>> THEN <<>> ELSE LowerChar(Head(t)) \o Lower(Tail(t))

\* the \w class of a regular expression: letters (U+0130 is one, the
\* combining dot U+0307 is not), digits and the underscore
IsWordChar(c) ==
    \/ \E i \in 1..Len(UpperAlpha) : UpperAlpha[i] = c \/ LowerAlpha[i] = c
    \/ c = "<I-dot>"
    \/ IsDigit(c)
    \/ c = "_"

\* t[a:b] for 0 <= a
Slice(t, a, b) == SubSeq(t, a + 1, IF b > Len(t) THEN Len(t) ELSE b)

\* needle occurs in hay at 0-based index i
OccursAt(hay, needle, i) ==
    /\ i >= 0
    /\ i + Len(needle) <= Len(hay)
    /\ \A k \in 1..Len(needle) : hay[i + k] = needle[k]

\* str.find
Find(hay, needle) ==
    LET hits == {i \in 0..(Len(hay) - Len(needle)) : OccursAt(hay, needle, i)}
    IN  IF hits = {} THEN -1 ELSE CHOOSE i \in hits : \A j \in hits : i <= j

\* needle in hay
Contains(hay, needle) == Find(hay, needle) # -1

StartsWith(t, p) == OccursAt(t, p, 0)

EndsWith(t, p) == OccursAt(t, p, Len(t) - Len(p))

RECURSIVE LStripSet(_, _)
LStripSet(t, cs) ==
    IF t # <<>> /\ Head(t) \in cs THEN LStripSet(Tail(t), cs) ELSE t

RECURSIVE RStripSet(_, _)
RStripSet(t, cs) ==
    IF t # <<>> /\ t[Len(t)] \in cs THEN RStripSet(SubSeq(t, 1, Len(t) - 1), cs) ELSE t

\* str.strip(chars)
StripSet(t, cs) == RStripSet(LStripSet(t, cs), cs)

\* str.strip()
Strip(t) == StripSet(t, WhiteSpace)

RECURSIVE Concat(_)
Concat(ss) == IF ss = <<>> THEN <<>> ELSE Head(ss) \o Concat(Tail(ss))

\* all sequences over S of length <= n
SeqsUpTo(S, n) == UNION {[1..k -> S] : k \in 0..n}

\* str.split(sep) for a one-character separator: always at least one field
RECURSIVE SplitOn(_, _)
SplitOn(t, sep) ==
    LET i == Find(t, <<sep>>)
    IN  IF i = -1 THEN <<t>>
        ELSE <<Slice(t, 0, i)>> \o SplitOn(Slice(t, i + 1, Len(t)), sep)

\* str.split(): the maximal runs of non-whitespace characters
RECURSIVE SplitWords(_)
SplitWords(t) ==
    LET s == LStripSet(t, WhiteSpace)
        n == IF \E i \in 1..Len(s) : IsSpace(s[i])
             THEN (CHOOSE i \in 1..Len(s) : IsSpace(s[i]) /\ \A j \in 1..(i - 1) : ~IsSpace(s[j])) - 1
             ELSE Len(s)
    IN  IF s = <<>> THEN <<>>
        ELSE <<SubSeq(s, 1, n)>> \o SplitWords(SubSeq(s, n + 1, Len(s)))

-----------------------------------------------------------------------------
(* nlp/parse.py                                                             *)

\* a plausible slip: the pattern written " +", so that only runs of blanks
\* are collapsed and line breaks stay
RECURSIVE SubSpaces_blanksonly(_)
SubSpaces_blanksonly(t) ==
    IF t = <<>> THEN <<>>
    ELSE IF Head(t) = " " THEN <<" ">> \o SubSpaces_blanksonly(LStripSet(Tail(t), {" "}))
    ELSE <<Head(t)>> \o SubSpaces_blanksonly(Tail(t))

\* re.sub(r"\s+", " ", t): every maximal run of whitespace becomes one space
RECURSIVE SubSpaces(_)
SubSpaces(t) ==
    IF t = <<>> THEN <<>>
    ELSE IF IsSpace(Head(t)) THEN <<" ">> \o SubSpaces(LStripSet(Tail(t), WhiteSpace))
    ELSE <<Head(t)>> \o SubSpaces(Tail(t))

\* a plausible slip: the trailing .strip() forgotten
normalize_text_nostrip(t) == SubSpaces(t)

normalize_text(t) == Strip(SubSpaces(t))

-----------------------------------------------------------------------------
(* The embedding model where no thread is modelled                          *)

\* no analysis is running and no model has been loaded
IdleEmbedder ==
    /\ cache = 0
    /\ built = 0
    /\ thr = <<>>

-----------------------------------------------------------------------------
(* normalize_text: applied to a raw text, then to its own result            *)

MaxNormLen == 6

NormChars == {"a", " ", "\n", "\t"}

InitNorm ==
    /\ pc = "call"
    /\ args \in [t : SeqsUpTo(NormChars, MaxNormLen)]
    /\ ret = <<>>
    /\ IdleEmbedder

\* normalize_text(raw)
Normalize ==
    /\ pc = "call"
    /\ ret' = <<normalize_text(args.t)>>
    /\ pc' = "returned"
    /\ UNCHANGED <<args, cache, built, thr>>

\* normalize_text applied to the text it returned
NormalizeAgain ==
    /\ pc = "returned"
    /\ ret' = Append(ret, normalize_text(ret[1]))
    /\ pc' = "renormalized"
    /\ UNCHANGED <<args, cache, built, thr>>

NextNorm == Normalize \/ NormalizeAgain

SpecNorm == InitNorm /\ [][NextNorm]_vars

\* every whitespace character of t is a single space between two
\* non-whitespace characters
WellSpaced(t) ==
    \A i \in 1..Len(t) :
        IsSpace(t[i]) =>
            /\ t[i] = " "
            /\ 1 < i /\ i < Len(t)
            /\ ~IsSpace(t[i - 1]) /\ ~IsSpace(t[i + 1])

\* C3: normalize_text is idempotent (normalizing its own output returns that
\* output unchanged); its output holds no whitespace character other than a
\* single space between two non-whitespace characters (no longer run, no
\* newline or tab, nothing leading or trailing); and "" maps to "".
C3_NormalizeIdempotentWellSpaced ==
    /\ pc \in {"returned", "renormalized"} =>
           /\ WellSpaced(ret[1])
           /\ (args.t = <<>> => ret[1] = <<>>)
    /\ pc = "renormalized" => ret[2] = ret[1]

\* " a\n\ta ": leading, trailing and an inner run of whitespace, normalized twice
C3_Witness ==
    /\ pc = "renormalized"
    /\ args.t = <<" ","a","\n","\t","a"," ">>
    /\ ret[2] = <<"a"," ","a">>

-----------------------------------------------------------------------------
(* nlp/score.py: overall_score                                              *)

\* score inputs are drawn from the multiples of 1/Den, Den = 2 * HalfDen, so
\* that 0.5 is one of them
HalfDen == 2

Den == 2 * HalfDen

\* the tuned weights, in percent
W_SKILLS == 50

W_EMBED == 25

W_KW == 15

W_LEVEL == 10

\* exact rationals for Python's floats
Rat(n, d) == [num |-> n, den |-> d]

RatAdd(x, y) == Rat(x.num * y.den + y.num * x.den, x.den * y.den)

RatScale(k, x) == Rat(k * x.num, x.den)

\* a plausible slip: the level weight written 0.01 instead of 0.10
overall_score_badweight(s_skills, s_embed, s_kw, s_level) ==
    RatAdd(RatAdd(RatScale(W_SKILLS, s_skills), RatScale(W_EMBED, s_embed)),
           RatAdd(RatScale(W_KW, s_kw), RatScale(1, s_level)))

\* 100 * (0.5*s_skills + 0.25*s_embed + 0.15*s_kw + 0.10*s_level), the
\* weights taken in percent
overall_score(s_skills, s_embed, s_kw, s_level) ==
    RatAdd(RatAdd(RatScale(W_SKILLS, s_skills), RatScale(W_EMBED, s_embed)),
           RatAdd(RatScale(W_KW, s_kw), RatScale(W_LEVEL, s_level)))

\* arguments, in units of 1/Den, range a little beyond [0,1] on both sides
ScoreArgs == (-1)..(Den + 1)

InitScore ==
    /\ pc = "call"
    /\ args \in [s_skills : ScoreArgs, s_embed : ScoreArgs, s_kw : ScoreArgs, s_level : ScoreArgs]
    /\ ret = None
    /\ IdleEmbedder

OverallScore ==
    /\ pc = "call"
    /\ ret' = overall_score(Rat(args.s_skills, Den), Rat(args.s_embed, Den),
                             Rat(args.s_kw, Den), Rat(args.s_level, Den))
    /\ pc' = "returned"
    /\ UNCHANGED <<args, cache, built, thr>>

NextScore == OverallScore

SpecScore == InitScore /\ [][NextScore]_vars

InUnit(x) == 0 <= x /\ x <= Den

AllArgs(x) ==
    args.s_skills = x /\ args.s_embed = x /\ args.s_kw = x /\ args.s_level = x

\* C2: overall_score is 100 * (0.50*skills + 0.25*similarity + 0.15*kw +
\* 0.10*level); for all four inputs in [0,1] the result is in [0,100]; all
\* zero gives 0, all one gives 100, and (0.5, 0.5, 0.5, 0.5) gives 50.
C2_OverallScoreFormulaAndBounds ==
    pc = "returned" =>
        \* num/den = (50*a + 25*b + 15*c + 10*d) / Den, the inputs being a/Den, ...
        /\ ret.num * Den =
               ret.den * (50 * args.s_skills + 25 * args.s_embed
                          + 15 * args.s_kw + 10 * args.s_level)
        /\ ret.den > 0
        /\ (InUnit(args.s_skills) /\ InUnit(args.s_embed) /\ InUnit(args.s_kw) /\ InUnit(args.s_level)
               => 0 <= ret.num /\ ret.num <= 100 * ret.den)
        /\ (AllArgs(0) => ret.num = 0)
        /\ (AllArgs(Den) => ret.num = 100 * ret.den)
        /\ (AllArgs(HalfDen) => ret.num = 50 * ret.den)

\* overall_score(0.5, 0.5, 0.5, 0.5) has returned 50
C2_Witness ==
    /\ pc = "returned"
    /\ AllArgs(HalfDen)
    /\ ret.num = 50 * ret.den

-----------------------------------------------------------------------------
(* nlp/score.py: level_from_text, level_match                               *)

\* the seniority vocabulary, in the order the loop tries it
LEVELS == <<<<"i","n","t","e","r","n">>, <<"j","u","n","i","o","r">>, <<"e","n","t","r","y">>, <<"m","i","d">>, <<"s","e","n","i","o","r">>, <<"s","t","a","f","f">>, <<"l","e","a","d">>>>

Unknown == <<"u","n","k","n","o","w","n">>

\* a plausible slip: the level whose first occurrence in the text is leftmost
level_from_text_leftmost(t) ==
    LET low == Lower(t)
        found == {i \in 1..Len(LEVELS) : Contains(low, LEVELS[i])}
    IN  IF found = {} THEN Unknown
        ELSE LEVELS[CHOOSE i \in found :
                        \A j \in found : Find(low, LEVELS[i]) <= Find(low, LEVELS[j])]

\* the first level of LEVELS, in vocabulary order, that occurs in the lowered text
level_from_text(t) ==
    LET low == Lower(t)
        found == {i \in 1..Len(LEVELS) : Contains(low, LEVELS[i])}
    IN  IF found = {} THEN Unknown
        ELSE LEVELS[CHOOSE i \in found : \A j \in found : i <= j]

\* level scores in tenths
LEVEL_NEUTRAL == 5

LEVEL_SAME == 10

LEVEL_OTHER == 3

level_match(resume_text, jd_text) ==
    LET r == level_from_text(resume_text)
        j == level_from_text(jd_text)
    IN  IF j = Unknown THEN LEVEL_NEUTRAL
        ELSE IF r = j THEN LEVEL_SAME ELSE LEVEL_OTHER

MaxLevelPieces == 2

LevelPieces == {<<"S","e","n","i","o","r"," ">>, <<"j","u","n","i","o","r"," ">>, <<"i","n","t","e","r","n"," ">>, <<"d","e","v"," ">>, <<"l","e","a","d"," ">>}

LevelTexts == {Concat(ps) : ps \in SeqsUpTo(LevelPieces, MaxLevelPieces)}

InitLevel ==
    /\ pc = "call"
    /\ args \in [resume_text : LevelTexts, jd_text : LevelTexts]
    /\ ret = None
    /\ IdleEmbedder

LevelMatch ==
    /\ pc = "call"
    /\ ret' = level_match(args.resume_text, args.jd_text)
    /\ pc' = "returned"
    /\ UNCHANGED <<args, cache, built, thr>>

NextLevel == LevelMatch

SpecLevel == InitLevel /\ [][NextLevel]_vars

\* the text contains the level term, compared in lower case
Has(t, term) == Contains(Lower(t), term)

HasAnyLevel(t) == \E i \in 1..Len(LEVELS) : Has(t, LEVELS[i])

\* the text contains a term that precedes "senior" in the vocabulary
HasBelowSenior(t) ==
    Has(t, <<"i","n","t","e","r","n">>) \/ Has(t, <<"j","u","n","i","o","r">>) \/ Has(t, <<"e","n","t","r","y">>) \/ Has(t, <<"m","i","d">>)

\* C4 as stated: 1.0 for every resume containing "senior" with every JD
\* containing "senior"; 0.5 for every JD with no level term; 0.3 for every
\* resume containing "junior" with every JD containing "senior".
C4_Original ==
    pc = "returned" =>
        /\ (Has(args.resume_text, <<"s","e","n","i","o","r">>) /\ Has(args.jd_text, <<"s","e","n","i","o","r">>) => ret = 10)
        /\ (~HasAnyLevel(args.jd_text) => ret = 5)
        /\ (Has(args.resume_text, <<"j","u","n","i","o","r">>) /\ Has(args.jd_text, <<"s","e","n","i","o","r">>) => ret = 3)

\* C4 amended: 1.0 when both texts contain "senior" and neither contains a
\* term that precedes it in the vocabulary (intern, junior, entry, mid); 0.5
\* when the JD contains no level term, whatever the resume; 0.3 when the
\* resume contains "junior" but not "intern" and the JD contains "senior" and
\* none of the terms that precede it.
C4_LevelMatchByVocabularyOrder ==
    LET bothSenior ==
            /\ Has(args.resume_text, <<"s","e","n","i","o","r">>) /\ ~HasBelowSenior(args.resume_text)
            /\ Has(args.jd_text, <<"s","e","n","i","o","r">>) /\ ~HasBelowSenior(args.jd_text)
        juniorVsSenior ==
            /\ Has(args.resume_text, <<"j","u","n","i","o","r">>) /\ ~Has(args.resume_text, <<"i","n","t","e","r","n">>)
            /\ Has(args.jd_text, <<"s","e","n","i","o","r">>) /\ ~HasBelowSenior(args.jd_text)
    IN  pc = "returned" =>
            /\ (bothSenior => ret = 10)
            /\ (~HasAnyLevel(args.jd_text) => ret = 5)
            /\ (juniorVsSenior => ret = 3)

\* a resume naming "senior" before "lead", matched with a senior JD: 1.0
C4_Witness ==
    /\ pc = "returned"
    /\ args.resume_text = <<"S","e","n","i","o","r"," ","l","e","a","d"," ">>
    /\ args.jd_text = <<"S","e","n","i","o","r"," ">>
    /\ ret = 10

-----------------------------------------------------------------------------
(* nlp/parse.py: detect_sections                                            *)

COMMON_SECTIONS ==
    <<<<"e","x","p","e","r","i","e","n","c","e">>, <<"w","o","r","k"," ","e","x","p","e","r","i","e","n","c","e">>, <<"p","r","o","j","e","c","t","s">>, <<"e","d","u","c","a","t","i","o","n">>, <<"s","k","i","l","l","s">>,
      <<"s","u","m","m","a","r","y">>, <<"o","b","j","e","c","t","i","v","e">>, <<"c","e","r","t","i","f","i","c","a","t","i","o","n","s">>, <<"p","u","b","l","i","c","a","t","i","o","n","s">>>>

\* sorted(chunks.items(), key=idx): the positions of S in ascending order of
\* key, equal keys in ascending position (the sort is stable)
RECURSIVE SortedBy(_, _)
SortedBy(S, key) ==
    IF S = {} THEN <<>>
    ELSE LET m == CHOOSE i \in S :
                      \A j \in S : key[i] < key[j] \/ (key[i] = key[j] /\ i <= j)
         IN  <<m>> \o SortedBy(S \ {m}, key)

\* the (sec, text[start:end].strip()) pairs of `ordered`, in that order
SectionRanges(text, ordered, idx) ==
    [k \in 1..Len(ordered) |->
        LET start == idx[ordered[k]]
            end == IF k + 1 <= Len(ordered) THEN idx[ordered[k + 1]] ELSE Len(text)
        IN  [sec |-> COMMON_SECTIONS[ordered[k]], text |-> Strip(Slice(text, start, end))]]

\* a plausible slip: the found labels left in vocabulary order, not sorted by index
detect_sections_unsorted(text) ==
    LET lower == Lower(text)
        idx == [i \in 1..Len(COMMON_SECTIONS) |-> Find(lower, COMMON_SECTIONS[i])]
        chunks == {i \in 1..Len(COMMON_SECTIONS) : idx[i] # -1}
    IN  SectionRanges(text, SortedBy(chunks, [i \in 1..Len(COMMON_SECTIONS) |-> 0]), idx)

\* the returned dict, as the sequence of its (key, value) items in insertion order
detect_sections(text) ==
    LET lower == Lower(text)
        idx == [i \in 1..Len(COMMON_SECTIONS) |-> Find(lower, COMMON_SECTIONS[i])]
        chunks == {i \in 1..Len(COMMON_SECTIONS) : idx[i] # -1}
    IN  SectionRanges(text, SortedBy(chunks, idx), idx)

\* sections.get(sec, "")
SectionGet(sections, sec) ==
    IF \E k \in 1..Len(sections) : sections[k].sec = sec
    THEN sections[CHOOSE k \in 1..Len(sections) : sections[k].sec = sec].text
    ELSE <<>>

MaxSectionPieces == 3

SectionPieces == {<<"S","u","m","m","a","r","y"," ">>, <<"b","l","a","h"," ">>, <<"E","d","u","c","a","t","i","o","n">>, <<"e","x","p","e","r","i","e","n","c","e"," ">>, <<"w","o","r","k"," ">>, <<"<I-dot>">>}

SectionTexts == {Concat(ps) : ps \in SeqsUpTo(SectionPieces, MaxSectionPieces)}

InitSections ==
    /\ pc = "call"
    /\ args \in [text : SectionTexts]
    /\ ret = None
    /\ IdleEmbedder

DetectSections ==
    /\ pc = "call"
    /\ ret' = detect_sections(args.text)
    /\ pc' = "returned"
    /\ UNCHANGED <<args, cache, built, thr>>

NextSections == DetectSections

SpecSections == InitSections /\ [][NextSections]_vars

\* the vocabulary labels that occur in the text, compared in lower case
LabelsPresent(text) ==
    {COMMON_SECTIONS[i] : i \in {j \in 1..Len(COMMON_SECTIONS) :
                                     Contains(Lower(text), COMMON_SECTIONS[j])}}

\* the index of the first occurrence of the k-th key in the lowered text
KeyIndex(k) == Find(Lower(args.text), ret[k].sec)

\* the text from the k-th key's index to the next key's index, or to the end
KeyRegion(k) ==
    Slice(args.text, KeyIndex(k), IF k < Len(ret) THEN KeyIndex(k + 1) ELSE Len(args.text))

KeysAreLabelsInIndexOrder ==
    /\ {ret[k].sec : k \in 1..Len(ret)} = LabelsPresent(args.text)
    /\ Len(ret) = Cardinality(LabelsPresent(args.text))
    /\ \A k \in 1..(Len(ret) - 1) : KeyIndex(k) < KeyIndex(k + 1)

\* C5 as stated: the keys are exactly the labels occurring in the text, in
\* order of first occurrence; each value is the substring from its label's
\* index to the next label's index (or the end); so the values, concatenated
\* in order, are the text from the first label's index to the end.
C5_Original ==
    pc = "returned" =>
        /\ KeysAreLabelsInIndexOrder
        /\ \A k \in 1..Len(ret) : ret[k].text = KeyRegion(k)
        /\ (Len(ret) > 0 =>
               Concat([k \in 1..Len(ret) |-> ret[k].text])
                   = Slice(args.text, KeyIndex(1), Len(args.text)))

\* C5 amended: the keys are exactly the labels occurring in the lowered text,
\* ordered by the index of their first occurrence there; each value is the
\* substring of the text from that index to the next label's index (or the
\* end) with leading and trailing whitespace stripped.
C5_SectionsAreStrippedRegions ==
    pc = "returned" =>
        /\ KeysAreLabelsInIndexOrder
        /\ \A k \in 1..Len(ret) : ret[k].text = Strip(KeyRegion(k))

\* three labels at increasing indices; the first region ends in a space that
\* the value does not keep
C5_Witness ==
    /\ pc = "returned"
    /\ args.text = <<"S","u","m","m","a","r","y"," ","E","d","u","c","a","t","i","o","n","e","x","p","e","r","i","e","n","c","e"," ">>
    /\ Len(ret) = 3
    /\ ret[1] = [sec |-> <<"s","u","m","m","a","r","y">>, text |-> <<"S","u","m","m","a","r","y">>]
    /\ ret[2].sec = <<"e","d","u","c","a","t","i","o","n">>
    /\ ret[3] = [sec |-> <<"e","x","p","e","r","i","e","n","c","e">>, text |-> <<"e","x","p","e","r","i","e","n","c","e">>]

-----------------------------------------------------------------------------
(* nlp/score.py: weighted_skill_overlap                                     *)

\* skill weights in tenths
W_BASE == 10

W_EARLY == 15

W_HEADING == 13

\* a skill found in one of the first EARLY_LINES non-empty lines is emphasised
EARLY_LINES == 5

Max(a, b) == IF a >= b THEN a ELSE b

\* [f(x) for x in s if x]: the non-empty stripped fields
RECURSIVE StripNonEmpty(_)
StripNonEmpty(fields) ==
    IF fields = <<>> THEN <<>>
    ELSE (IF Strip(Head(fields)) # <<>> THEN <<Strip(Head(fields))>> ELSE <<>>)
             \o StripNonEmpty(Tail(fields))

\* [ln.strip() for ln in jd_lower.split("\n") if ln.strip()]
JdLines(jd_lower) == StripNonEmpty(SplitOn(jd_lower, "\n"))

\* the weight of skill s: decided by the first line that contains it
SkillWeight(s, lines) ==
    LET hits == {i \in 1..Len(lines) : Contains(lines[i], s)}
    IN  IF hits = {} THEN W_BASE
        ELSE LET n == CHOOSE i \in hits : \A j \in hits : i <= j
                 early == IF n - 1 < EARLY_LINES THEN Max(W_BASE, W_EARLY) ELSE W_BASE
             IN  IF EndsWith(lines[n], <<":">>) THEN Max(early, W_HEADING) ELSE early

RECURSIVE SumWeights(_, _)
SumWeights(S, w) ==
    IF S = {} THEN 0
    ELSE LET s == CHOOSE x \in S : TRUE IN w[s] + SumWeights(S \ {s}, w)

\* a plausible slip: one weight per catalog entry (a list, not a dict), so a
\* skill listed twice in the catalog counts twice
weighted_skill_overlap_perentry(resume_skills, jd_text, skill_list) ==
    LET jd_lower == Lower(jd_text)
        lines == JdLines(jd_lower)
        hit == {i \in 1..Len(skill_list) : Contains(jd_lower, Lower(skill_list[i]))}
        w == [i \in hit |-> SkillWeight(Lower(skill_list[i]), lines)]
    IN  IF hit = {} THEN Rat(0, 1)
        ELSE Rat(SumWeights({i \in hit : Lower(skill_list[i]) \in resume_skills}, w),
                   SumWeights(hit, w))

\* resume_skills is given as set(resume_skills)
weighted_skill_overlap(resume_skills, jd_text, skill_list) ==
    LET jd_lower == Lower(jd_text)
        lines == JdLines(jd_lower)
        keys == {Lower(skill_list[i]) : i \in {j \in 1..Len(skill_list) :
                                                  Contains(jd_lower, Lower(skill_list[j]))}}
        weights == [s \in keys |-> SkillWeight(s, lines)]
    IN  IF keys = {} THEN Rat(0, 1)
        ELSE Rat(SumWeights({s \in keys : s \in resume_skills}, weights),
                   SumWeights(keys, weights))

Python == <<"p","y","t","h","o","n">>

Java == <<"j","a","v","a">>

Sql == <<"s","q","l">>

\* five non-empty lines: what follows is no longer "early"
FiveLines == <<"x","\n","x","\n","x","\n","x","\n","x","\n">>

MaxJdPieces == 3

JdPieces == {<<"P","y","t","h","o","n">>, <<"j","a","v","a">>, <<"s","q","l"," ">>, <<":">>, <<"\n">>, FiveLines}

JdTexts == {Concat(ps) : ps \in SeqsUpTo(JdPieces, MaxJdPieces)}

\* catalogs: lower-case skill names, one with a repeated entry
Catalogs == {<<Python, Java, Sql>>, <<Python, Java, Python>>}

ResumeSkillSets == {{}, {Python}, {Python, Sql}, {Java, Sql}}

InitOverlap ==
    /\ pc = "call"
    /\ args \in [resume_skills : ResumeSkillSets, jd_text : JdTexts, skill_list : Catalogs]
    /\ ret = None
    /\ IdleEmbedder

WeightedSkillOverlap ==
    /\ pc = "call"
    /\ ret' = weighted_skill_overlap(args.resume_skills, args.jd_text, args.skill_list)
    /\ pc' = "returned"
    /\ UNCHANGED <<args, cache, built, thr>>

NextOverlap == WeightedSkillOverlap

SpecOverlap == InitOverlap /\ [][NextOverlap]_vars

\* the catalog skills found in the JD
JdSkills(jd_text, skill_list) ==
    {s \in {skill_list[i] : i \in 1..Len(skill_list)} : Contains(Lower(jd_text), s)}

\* the weight the JD gives a skill
JdWeight(jd_text) ==
    [s \in {Python, Java, Sql} |-> SkillWeight(s, JdLines(Lower(jd_text)))]

\* C1: the result is (sum of the weights of the catalog skills found in the JD
\* that are in resumeSkills) / (sum of the weights of all catalog skills found
\* in the JD), and 0.0 when none is found; it lies in [0,1]; and when the JD's
\* only catalog skills are python and java, equally weighted, and the resume
\* has python but not java, it is exactly 0.5.
C1_OverlapIsWeightedFraction ==
    pc = "returned" =>
        LET jd == JdSkills(args.jd_text, args.skill_list)
            w == JdWeight(args.jd_text)
        IN  /\ ret.den > 0
            /\ (jd = {} => ret.num = 0)
            /\ (jd # {} =>
                   ret.num * SumWeights(jd, w)
                       = SumWeights(jd \cap args.resume_skills, w) * ret.den)
            /\ 0 <= ret.num /\ ret.num <= ret.den
            /\ ((jd = {Python, Java} /\ w[Python] = w[Java]
                    /\ Python \in args.resume_skills /\ Java \notin args.resume_skills)
                   => 2 * ret.num = ret.den)

\* python and java on one line each, the catalog listing python twice, the
\* resume holding python and sql: 0.5
C1_Witness ==
    /\ pc = "returned"
    /\ args.jd_text = <<"P","y","t","h","o","n","\n","j","a","v","a">>
    /\ args.skill_list = <<Python, Java, Python>>
    /\ args.resume_skills = {Python, Sql}
    /\ 2 * ret.num = ret.den

-----------------------------------------------------------------------------
(* nlp/score.py: embedder (functools.lru_cache(maxsize=1)) and              *)
(* cosine_embed_sim, called by analyses running in concurrent threads.      *)
(* lru_cache looks the key up, calls the wrapped function on a miss without *)
(* holding any lock, and stores the result afterwards unless the key has    *)
(* been stored meanwhile.                                                   *)

NumThreads == 2

\* analyses each thread runs
MaxCalls == 2

Threads == 1..NumThreads

InitEmbed ==
    /\ pc = "serving"
    /\ args = None
    /\ ret = None
    /\ cache = 0
    /\ built = 0
    /\ thr = [t \in Threads |-> [pc |-> "idle", model |-> 0, calls |-> 0]]

\* embedder(): the key is cached, the cached instance is returned
CacheHit(t) ==
    /\ thr[t].pc = "idle"
    /\ thr[t].calls < MaxCalls
    /\ cache # 0
    /\ thr' = [thr EXCEPT ![t].pc = "encode", ![t].model = cache]
    /\ UNCHANGED <<pc, args, ret, cache, built>>

\* embedder(): the key is not cached, the wrapper goes on to call the function
CacheMiss(t) ==
    /\ thr[t].pc = "idle"
    /\ thr[t].calls < MaxCalls
    /\ cache = 0
    /\ thr' = [thr EXCEPT ![t].pc = "loading"]
    /\ UNCHANGED <<pc, args, ret, cache, built>>

\* SentenceTransformer(...) returns a new instance
Construct(t) ==
    /\ thr[t].pc = "loading"
    /\ built' = built + 1
    /\ thr' = [thr EXCEPT ![t].pc = "loaded", ![t].model = built + 1]
    /\ UNCHANGED <<pc, args, ret, cache>>

\* SentenceTransformer(...) raises: nothing is cached, the analysis fails
LoadFails(t) ==
    /\ thr[t].pc = "loading"
    /\ thr' = [thr EXCEPT ![t].pc = "idle", ![t].calls = @ + 1]
    /\ UNCHANGED <<pc, args, ret, cache, built>>

\* back in the wrapper: the result is stored unless the key was stored during
\* the call, and the caller gets its own result either way
StoreResult(t) ==
    /\ thr[t].pc = "loaded"
    /\ cache' = IF cache = 0 THEN thr[t].model ELSE cache
    /\ thr' = [thr EXCEPT ![t].pc = "encode"]
    /\ UNCHANGED <<pc, args, ret, built>>

\* model.encode(...): cosine_embed_sim returns
Encode(t) ==
    /\ thr[t].pc = "encode"
    /\ thr' = [thr EXCEPT ![t].pc = "idle", ![t].model = 0, ![t].calls = @ + 1]
    /\ UNCHANGED <<pc, args, ret, cache, built>>

NextEmbed ==
    \E t \in Threads :
        \/ CacheHit(t)
        \/ CacheMiss(t)
        \/ Construct(t)
        \/ LoadFails(t)
        \/ StoreResult(t)
        \/ Encode(t)

SpecEmbed == InitEmbed /\ [][NextEmbed]_vars

\* C6: under concurrent calls with a cold cache the model is constructed at
\* most once in the process and every caller uses that one cached instance
\* (which, once stored, no later call replaces or evicts).
C6_AtMostOneConstruction ==
    /\ built <= 1
    /\ \A t \in Threads : thr[t].pc = "encode" => thr[t].model = cache

-----------------------------------------------------------------------------
(* nlp/rewrite.py                                                           *)

ACTION_VERBS ==
    <<<<"b","u","i","l","t">>, <<"d","e","v","e","l","o","p","e","d">>, <<"d","e","s","i","g","n","e","d">>, <<"i","m","p","l","e","m","e","n","t","e","d">>, <<"a","u","t","o","m","a","t","e","d">>, <<"o","p","t","i","m","i","z","e","d">>,
      <<"r","e","d","u","c","e","d">>, <<"i","m","p","r","o","v","e","d">>, <<"l","a","u","n","c","h","e","d">>, <<"m","i","g","r","a","t","e","d">>, <<"d","e","p","l","o","y","e","d">>, <<"i","n","t","e","g","r","a","t","e","d">>,
      <<"l","e","d">>, <<"o","w","n","e","d">>, <<"c","r","e","a","t","e","d">>, <<"a","n","a","l","y","z","e","d">>, <<"t","r","a","i","n","e","d">>, <<"t","e","s","t","e","d">>>>

\* str.upper() of one character
UpperChar(c) ==
    IF \E i \in 1..Len(LowerAlpha) : LowerAlpha[i] = c
    THEN UpperAlpha[CHOOSE i \in 1..Len(LowerAlpha) : LowerAlpha[i] = c]
    ELSE c

\* str.capitalize()
Capitalize(t) == IF t = <<>> THEN <<>> ELSE <<UpperChar(Head(t))>> \o Lower(Tail(t))

\* keys[0] if keys else "the role", keys being keyword_ngrams(jd_text, top_k=10)
best_hint(keys) == IF keys # <<>> THEN keys[1] ELSE <<"t","h","e"," ","r","o","l","e">>

\* b.strip().rstrip('.')
normalize_bullet(b) == RStripSet(Strip(b), {"."})

\* the length of the run of digits of b that starts at 0-based index p
RECURSIVE DigitRun(_, _)
DigitRun(b, p) ==
    IF p < Len(b) /\ IsDigit(b[p + 1]) THEN 1 + DigitRun(b, p + 1) ELSE 0

\* \d+c? tried at index p: the length matched, or -1 when it does not match
DigitsThenOptional(b, p, c) ==
    LET n == DigitRun(b, p)
    IN  IF n = 0 THEN -1
        ELSE IF p + n < Len(b) /\ b[p + n + 1] = c THEN n + 1 ELSE n

\* (\d+%?|\d+\+?) tried at index p: the second alternative is tried only when
\* the first does not match
MetricAt(b, p) ==
    IF DigitsThenOptional(b, p, "%") # -1 THEN DigitsThenOptional(b, p, "%")
    ELSE DigitsThenOptional(b, p, "+")

\* re.search(r"(\d+%?|\d+\+?)", b): group 1 of the leftmost match, or None
SearchMetric(b) ==
    LET at == {p \in 0..(Len(b) - 1) : MetricAt(b, p) # -1}
    IN  IF at = {} THEN None
        ELSE LET p == CHOOSE q \in at : \A r \in at : q <= r
             IN  Slice(b, p, p + MetricAt(b, p))

IsActionVerb(w) == \E i \in 1..Len(ACTION_VERBS) : ACTION_VERBS[i] = w

\* the bullet as it stands when its first word is an action verb, else with
\* the first action verb, capitalized, put before it
Core(b) ==
    LET words == SplitWords(b)
    IN  IF words # <<>> /\ IsActionVerb(Lower(words[1])) THEN b
        ELSE Capitalize(ACTION_VERBS[1]) \o <<" ">> \o b

\* the two f-strings of rewrite_once
Render(core, metric, hint_kw) ==
    IF metric # None
    THEN core \o <<" ","<emdash>"," ","a","c","h","i","e","v","i","n","g"," ">> \o metric \o <<" ","i","m","p","a","c","t",";"," ","a","l","i","g","n","e","d"," ","w","i","t","h"," ">> \o hint_kw \o <<".">>
    ELSE core \o <<" ","<emdash>"," ","a","l","i","g","n","e","d"," ","w","i","t","h"," ">> \o hint_kw \o <<".">>

\* a plausible slip: the action verb put before every bullet
rewrite_once_alwaysverb(bullet, jd_text, hint_kw) ==
    LET b == normalize_bullet(bullet)
    IN  Render(Capitalize(ACTION_VERBS[1]) \o <<" ">> \o b, SearchMetric(b), hint_kw)

rewrite_once(bullet, jd_text, hint_kw) ==
    LET b == normalize_bullet(bullet)
    IN  Render(Core(b), SearchMetric(b), hint_kw)

\* bullets shorter than this are skipped
SKIP_BELOW == 5

\* the (b, rewrite) pairs of the bullets of length >= SKIP_BELOW, in order
RECURSIVE RewriteAll(_, _, _)
RewriteAll(bullets, jd_text, hint) ==
    IF bullets = <<>> THEN <<>>
    ELSE (IF Len(Head(bullets)) < SKIP_BELOW THEN <<>>
          ELSE <<<<Head(bullets), rewrite_once(Head(bullets), jd_text, hint)>>>>)
             \o RewriteAll(Tail(bullets), jd_text, hint)

\* jd_keys is what keyword_ngrams(jd_text, top_k=10) returns for jd_text
tailored_rewrites(bullets, jd_text, jd_keys, prefer_keywords) ==
    LET hint == IF prefer_keywords # <<>> THEN prefer_keywords[1] ELSE best_hint(jd_keys)
    IN  RewriteAll(bullets, jd_text, hint)

MaxBulletPieces == 3

BulletPieces == {<<"B","u","i","l","t"," ">>, <<"l","e","d"," ">>, <<"r","a","n"," ">>, <<"2","0">>, <<"%">>, <<"+">>, <<".">>}

BulletTexts == {Concat(ps) : ps \in SeqsUpTo(BulletPieces, MaxBulletPieces)}

\* (TF-IDF ranking of the JD, preferred keywords) given to one call
HintSources ==
    {[jd_keys |-> <<<<"s","q","l">>>>, prefer |-> <<Python, Java>>],
     [jd_keys |-> <<<<"s","q","l">>>>, prefer |-> <<>>],
     [jd_keys |-> <<>>, prefer |-> <<>>]}

InitRewrite ==
    /\ pc = "call"
    /\ \E b \in BulletTexts, h \in HintSources :
           args = [bullets |-> <<b, <<"L","e","d"," ","3"," ","t","e","a","m","s",".">>>>, jd_text |-> "jd",
                   jd_keys |-> h.jd_keys, prefer_keywords |-> h.prefer]
    /\ ret = None
    /\ IdleEmbedder

TailoredRewrites ==
    /\ pc = "call"
    /\ ret' = tailored_rewrites(args.bullets, args.jd_text, args.jd_keys, args.prefer_keywords)
    /\ pc' = "returned"
    /\ UNCHANGED <<args, cache, built, thr>>

NextRewrite == TailoredRewrites

SpecRewrite == InitRewrite /\ [][NextRewrite]_vars

\* the hint of the call: the first preferred keyword, else the JD's top
\* keyword, else "the role"
CallHint ==
    IF args.prefer_keywords # <<>> THEN args.prefer_keywords[1]
    ELSE IF args.jd_keys # <<>> THEN args.jd_keys[1] ELSE <<"t","h","e"," ","r","o","l","e">>

\* the bullet without surrounding whitespace and trailing periods
Trimmed(b) == RStripSet(Strip(b), {"."})

HasDigit(b) == \E i \in 1..Len(b) : IsDigit(b[i])

HasLeadingDigit(b) == Trimmed(b) # <<>> /\ IsDigit(Trimmed(b)[1])

\* the first whitespace-delimited word of the bullet is an action verb
StartsWithVerb(b) ==
    \E i \in 1..Len(ACTION_VERBS) :
        /\ StartsWith(Lower(Trimmed(b)), ACTION_VERBS[i])
        /\ \/ Len(Trimmed(b)) = Len(ACTION_VERBS[i])
           \/ IsSpace(Trimmed(b)[Len(ACTION_VERBS[i]) + 1])

Achieving == <<" ","<emdash>"," ","a","c","h","i","e","v","i","n","g"," ">>

\* the first maximal run of digits of b, with the "%" that follows it if any
RECURSIVE FirstDigitsPercent(_)
FirstDigitsPercent(b) ==
    IF b = <<>> THEN <<>>
    ELSE IF ~IsDigit(Head(b)) THEN FirstDigitsPercent(Tail(b))
    ELSE LET n == CHOOSE m \in 1..Len(b) :
                      /\ \A i \in 1..m : IsDigit(b[i])
                      /\ (m = Len(b) \/ ~IsDigit(b[m + 1]))
         IN  IF n < Len(b) /\ b[n + 1] = "%" THEN SubSeq(b, 1, n + 1) ELSE SubSeq(b, 1, n)

\* the rewrite as a function of the bullet and the hint alone
RewriteOf(b, hint) ==
    (IF StartsWithVerb(b) THEN <<>> ELSE <<"B","u","i","l","t"," ">>)
        \o Trimmed(b)
        \o (IF HasDigit(b) THEN Achieving \o FirstDigitsPercent(Trimmed(b)) \o <<" ","i","m","p","a","c","t",";">>
            ELSE <<" ","<emdash>">>)
        \o <<" ","a","l","i","g","n","e","d"," ","w","i","t","h"," ">> \o hint \o <<".">>

\* what C7 says of one (bullet, rewrite) pair, apart from the metric clause:
\* the rewrite is determined by bullet and hint, and the verb is put in front
\* exactly when the bullet does not start with one
VerbPrefixRule(b, rew) ==
    /\ rew = RewriteOf(b, CallHint)
    /\ (StartsWithVerb(b) => StartsWith(rew, Trimmed(b) \o <<" ","<emdash>"," ","a">>))
    /\ (~StartsWithVerb(b) => StartsWith(rew, <<"B","u","i","l","t"," ">> \o Trimmed(b) \o <<" ","<emdash>"," ","a">>))

\* C7 as stated: the rewrite is determined by (bullet, hint); a bullet with no
\* leading digit never gets an "achieving N impact" clause; a bullet whose
\* first word is an action verb is not prefixed, every other bullet is
\* prefixed with "Built".
C7_Original ==
    pc = "returned" =>
        \A k \in 1..Len(ret) :
            /\ VerbPrefixRule(ret[k][1], ret[k][2])
            /\ (~HasLeadingDigit(ret[k][1]) => ~Contains(ret[k][2], Achieving))

\* C7 amended: the rewrite is determined by (bullet, hint); a bullet that
\* contains no digit never gets an "achieving N impact" clause; a bullet whose
\* first word is an action verb (compared in lower case) is not prefixed,
\* every other bullet is prefixed with "Built".
C7_RewriteShape ==
    pc = "returned" =>
        \A k \in 1..Len(ret) :
            /\ VerbPrefixRule(ret[k][1], ret[k][2])
            /\ (~HasDigit(ret[k][1]) => ~Contains(ret[k][2], Achieving))

\* a bullet starting with an action verb and holding no digit, and the fixed
\* second bullet "Led 3 teams.", both rewritten with the preferred keyword
C7_Witness ==
    /\ pc = "returned"
    /\ args.bullets[1] = <<"B","u","i","l","t"," ","r","a","n"," ",".">>
    /\ Len(ret) = 2
    /\ ret[1][2] = <<"B","u","i","l","t"," ","r","a","n"," "," ","<emdash>"," ","a","l","i","g","n","e","d"," ","w","i","t","h"," ","p","y","t","h","o","n",".">>
    /\ ret[2][2] = <<"L","e","d"," ","3"," ","t","e","a","m","s"," ","<emdash>"," ","a","c","h","i","e","v","i","n","g"," ","3"," ","i","m","p","a","c","t",";"," ","a","l","i","g","n","e","d"," ","w","i","t","h"," ","p","y","t","h","o","n",".">>

\* the first maximal run of digits of b with the "%" or "+" that follows it
RECURSIVE FirstNumber(_)
FirstNumber(b) ==
    IF b = <<>> THEN <<>>
    ELSE IF ~IsDigit(Head(b)) THEN FirstNumber(Tail(b))
    ELSE LET n == CHOOSE m \in 1..Len(b) :
                      /\ \A i \in 1..m : IsDigit(b[i])
                      /\ (m = Len(b) \/ ~IsDigit(b[m + 1]))
         IN  IF n < Len(b) /\ b[n + 1] \in {"%", "+"} THEN SubSeq(b, 1, n + 1)
             ELSE SubSeq(b, 1, n)

\* C8: the metric of the "achieving {metric} impact" clause is the first
\* number of the bullet together with the "%" or "+" that immediately follows it.
C8_MetricKeepsPercentOrPlus ==
    pc = "returned" =>
        \A k \in 1..Len(ret) :
            HasDigit(Trimmed(ret[k][1])) =>
                Contains(ret[k][2],
                         Achieving \o FirstNumber(Trimmed(ret[k][1])) \o <<" ","i","m","p","a","c","t",";"," ","a","l","i","g","n","e","d">>)

-----------------------------------------------------------------------------
(* nlp/parse.py: extract_skills                                             *)

\* \b at 0-based position p of t: exactly one of the characters on its two
\* sides is a word character (the ends of t count as non-word)
WordBoundary(t, p) ==
    (p > 0 /\ IsWordChar(t[p])) # (p < Len(t) /\ IsWordChar(t[p + 1]))

\* re.search(rf"\b{re.escape(sk_low)}\b", lower)
WordSearch(lower, sk_low) ==
    \E p \in 0..(Len(lower) - Len(sk_low)) :
        /\ OccursAt(lower, sk_low, p)
        /\ WordBoundary(lower, p)
        /\ WordBoundary(lower, p + Len(sk_low))

\* fuzz.partial_ratio(sk_low, lower) >= 90: 100 when the skill is a substring
\* of the text; otherwise the library's verdict, given as the set `fuzzy` of
\* the skills it scores 90 or more against this text
PartialRatioAccepts(sk_low, lower, fuzzy) ==
    Contains(lower, sk_low) \/ sk_low \in fuzzy

\* sorted(found), as the set found
extract_skills(text, skill_list, fuzzy) ==
    LET lower == Lower(text)
        cand == {Strip(Lower(skill_list[i])) : i \in 1..Len(skill_list)} \ {<<>>}
    IN  {sk \in cand : WordSearch(lower, sk) \/ PartialRatioAccepts(sk, lower, fuzzy)}

-----------------------------------------------------------------------------
(* app.py: the handler of the "Tailor my resume" button                     *)

\* the characters the handler strips from a bullet line: "-", the bullet
\* sign U+2022, space and tab
BULLET_CHARS == {"-", "<bullet>", " ", "\t"}

\* at most this many candidate bullets are kept
MAX_BULLETS == 8

\* [f(b) for b in fields if len(b.strip()) > 0]
RECURSIVE CleanBullets(_)
CleanBullets(fields) ==
    IF fields = <<>> THEN <<>>
    ELSE (IF Len(Strip(Head(fields))) > 0
          THEN <<Strip(StripSet(Head(fields), BULLET_CHARS))>> ELSE <<>>)
             \o CleanBullets(Tail(fields))

\* a plausible slip: split() in place of split("\n")
CandidateBullets_splitwords(bullets_src) ==
    LET all == CleanBullets(SplitWords(bullets_src))
    IN  SubSeq(all, 1, IF Len(all) < MAX_BULLETS THEN Len(all) ELSE MAX_BULLETS)

\* [b.strip(BULLET_CHARS).strip() for b in bullets_src.split("\n") if len(b.strip()) > 0][:8]
CandidateBullets(bullets_src) ==
    LET all == CleanBullets(SplitOn(bullets_src, "\n"))
    IN  SubSeq(all, 1, IF Len(all) < MAX_BULLETS THEN Len(all) ELSE MAX_BULLETS)

\* sections.get("experience", "") or sections.get("work experience", "")
BulletsSource(sections) ==
    IF SectionGet(sections, <<"e","x","p","e","r","i","e","n","c","e">>) # <<>> THEN SectionGet(sections, <<"e","x","p","e","r","i","e","n","c","e">>)
    ELSE SectionGet(sections, <<"w","o","r","k"," ","e","x","p","e","r","i","e","n","c","e">>)

\* keyword coverage: 1.0 - min(len(missing_kw), 10) / 10.0
KeywordCoverage(missing_kw) ==
    Rat(10 - (IF Len(missing_kw) < 10 THEN Len(missing_kw) ELSE 10), 10)

\* the locals of the handler once the rewrites are computed; `o` holds what
\* the libraries return for these texts (fuzzy matches, embedding similarity,
\* missing keywords, TF-IDF ranking of the JD)
AnalysisLocals(resume_raw, jd_text, catalog, o) ==
    LET resume_text == normalize_text(resume_raw)
        jd_text_norm == normalize_text(jd_text)
        sections == detect_sections(resume_text)
        resume_skills == extract_skills(resume_text, catalog, o.fuzzy_resume)
        jd_skills == extract_skills(jd_text_norm, catalog, o.fuzzy_jd)
        s_skills == weighted_skill_overlap(resume_skills, jd_text_norm, catalog)
        s_embed == Rat(o.embed_sim, Den)
        missing_kw == o.missing_kw
        s_kw == KeywordCoverage(missing_kw)
        s_level == Rat(level_match(resume_text, jd_text_norm), 10)
        bullets == CandidateBullets(BulletsSource(sections))
    IN  [resume_text |-> resume_text,
         jd_text_norm |-> jd_text_norm,
         sections |-> sections,
         resume_skills |-> resume_skills,
         jd_skills |-> jd_skills,
         s_skills |-> s_skills,
         s_embed |-> s_embed,
         missing_kw |-> missing_kw,
         s_kw |-> s_kw,
         s_level |-> s_level,
         score |-> overall_score(s_skills, s_embed, s_kw, s_level),
         bullets |-> bullets,
         rewrites |-> tailored_rewrites(bullets, jd_text_norm, o.jd_keys, missing_kw)]

\* the skills catalog, lower-cased on load
CATALOG == <<Python, Java, Sql>>

NoFile == [kind |-> "none", raw |-> <<>>]

BadFile == [kind |-> "unreadable", raw |-> <<>>]

\* library results: nothing fuzzy, one missing keyword
PlainOracle ==
    [fuzzy_resume |-> {}, fuzzy_jd |-> {}, embed_sim |-> HalfDen,
     missing_kw |-> <<<<"s","q","l">>>>, jd_keys |-> <<<<"s","q","l">>>>]

\* library results: fuzzy matches on both sides, no missing keyword
FuzzyOracle ==
    [fuzzy_resume |-> {Sql}, fuzzy_jd |-> {Java}, embed_sim |-> Den,
     missing_kw |-> <<>>, jd_keys |-> <<<<"s","q","l">>>>]

Oracles == {PlainOracle, FuzzyOracle}

MaxResumePieces == 3

ResumePieces ==
    {<<"W","o","r","k"," ">>, <<"E","x","p","e","r","i","e","n","c","e">>, <<"\n","-"," ">>, <<"p","y","t","h","o","n"," ","2","0","%"," ">>, <<"E","d","u","c","a","t","i","o","n">>, <<"<I-dot>">>}

ResumeTexts == {Concat(ps) : ps \in SeqsUpTo(ResumePieces, MaxResumePieces)}

\* the uploads and JDs of a run: every JD with two fixed resumes, and every
\* resume with one fixed JD
Submissions ==
    ({NoFile, BadFile, [kind |-> "ok", raw |-> <<"E","x","p","e","r","i","e","n","c","e","\n","-"," ","L","e","d"," ","p","y","t","h","o","n"," ","s","q","l","\n">>]}
        \X JdTexts)
    \cup ({[kind |-> "ok", raw |-> r] : r \in ResumeTexts} \X {<<"S","e","n","i","o","r","\n","P","y","t","h","o","n",":","\n","j","a","v","a">>})

InitAnalyze ==
    /\ pc = "submitted"
    /\ \E sub \in Submissions, o \in Oracles :
           args = [resume_file |-> sub[1], jd_text |-> sub[2], oracle |-> o]
    /\ ret = None
    /\ IdleEmbedder

\* no upload or a blank JD: a warning, and the run stops
StopMissingInput ==
    /\ pc = "submitted"
    /\ args.resume_file.kind = "none" \/ Strip(args.jd_text) = <<>>
    /\ pc' = "stopped"
    /\ UNCHANGED <<args, ret, cache, built, thr>>

\* read_resume raises: an error message, and the run stops
StopUnreadable ==
    /\ pc = "submitted"
    /\ args.resume_file.kind = "unreadable"
    /\ Strip(args.jd_text) # <<>>
    /\ pc' = "stopped"
    /\ UNCHANGED <<args, ret, cache, built, thr>>

\* the embedding model cannot be loaded: cosine_embed_sim raises
FailModelUnavailable ==
    /\ pc = "submitted"
    /\ args.resume_file.kind = "ok"
    /\ Strip(args.jd_text) # <<>>
    /\ cache = 0
    /\ pc' = "failed"
    /\ UNCHANGED <<args, ret, cache, built, thr>>

\* the run goes through: the model is loaded on first use and cached
Analyze ==
    /\ pc = "submitted"
    /\ args.resume_file.kind = "ok"
    /\ Strip(args.jd_text) # <<>>
    /\ ret' = AnalysisLocals(args.resume_file.raw, args.jd_text, CATALOG, args.oracle)
    /\ cache' = IF cache = 0 THEN built + 1 ELSE cache
    /\ built' = IF cache = 0 THEN built + 1 ELSE built
    /\ pc' = "done"
    /\ UNCHANGED <<args, thr>>

NextAnalyze == StopMissingInput \/ StopUnreadable \/ FailModelUnavailable \/ Analyze

SpecAnalyze == InitAnalyze /\ [][NextAnalyze]_vars

\* the catalog skills that occur in the lowered text
FoundIn(text) == {s \in {CATALOG[i] : i \in 1..Len(CATALOG)} : Contains(Lower(text), s)}

\* C9: in every run the JD given to weighted_skill_overlap holds no newline, so
\* it has at most one line; every catalog skill found in it weighs 1.5, and
\* the skill score is |found skills also in resumeSkills| / |found skills|.
C9_PipelineOverlapIsUnweighted ==
    pc = "done" =>
        LET jd == ret.jd_text_norm
            found == FoundIn(jd)
        IN  /\ ~Contains(jd, <<"\n">>)
            /\ Len(JdLines(Lower(jd))) <= 1
            /\ \A s \in found : SkillWeight(s, JdLines(Lower(jd))) = 15
            /\ (found # {} =>
                   ret.s_skills.num * Cardinality(found)
                       = Cardinality(found \cap ret.resume_skills) * ret.s_skills.den)
            /\ (found = {} => ret.s_skills.num = 0)

\* a JD typed with java on its first line and python on its sixth: as typed
\* java would weigh 1.5 and python 1.0; normalized, both weigh the same
C9_Witness ==
    /\ pc = "done"
    /\ args.jd_text = <<"j","a","v","a","x","\n","x","\n","x","\n","x","\n","x","\n","P","y","t","h","o","n">>
    /\ ret.jd_text_norm = <<"j","a","v","a","x"," ","x"," ","x"," ","x"," ","x"," ","P","y","t","h","o","n">>
    /\ ret.resume_skills = {Python, Sql}
    /\ 2 * ret.s_skills.num = ret.s_skills.den

=============================================================================
